---- MODULE Spec2Model ----
(***************************************************************************)
(* A model of WAVM's atomic wait/wake runtime (Source/Runtime/Threads.cpp) *)
(* and of the external-symbol surface of the LLVM module emitter           *)
(* (Lib/LLVMJIT/LLVMEmitModule.cpp).                                       *)
(*                                                                         *)
(* Wait/wake: every WebAssembly thread is a process that repeatedly calls  *)
(* one of the intrinsics atomic_wake, atomic_wait_i32, atomic_wait_i64 or  *)
(* stores to the shared memory.  A call is a sequence of steps; a step is  *)
(* the code between two points where another thread can observe or change *)
(* the shared state (mutex acquisitions, the atomic decrement in           *)
(* closeWaitList, every signalEvent of the wake loop, the blocking wait).  *)
(* WaitList objects live in a heap of cells so that a pointer to a deleted *)
(* WaitList can be modelled: the re-check in closeWaitList can go through  *)
(* such a pointer and can leave one in the address table for later calls;  *)
(* what a use of a deleted WaitList does is a nondeterministic choice.     *)
(***************************************************************************)
EXTENDS Integers, Sequences, FiniteSets, TLC

\* ------------------------------------------------------------------ bounds
NumThreads == 3          \* WebAssembly threads
MaxCalls == 4            \* intrinsic calls the threads make in all
MaxApiCalls == 2         \* the same, in the interface model
MaxKeyCalls == 5         \* the same, in the one-address model
MaxTwoKeyCalls == 5      \* the same, in the two-address model
MaxStores == 1           \* stores the threads make in all
MaxClock == 1            \* last value the monotonic clock takes
MaxTypes == 2            \* irModule.types.size() at most
MaxTables == 1           \* irModule.tables.size() at most
MaxMemories == 1         \* irModule.memories.size() at most
MaxGlobals == 1          \* irModule.globals.size() at most
MaxExceptionTypes == 1   \* irModule.exceptionTypes.size() at most
MaxImports == 1          \* irModule.functions.imports.size() at most
MaxDefs == 3             \* irModule.functions.defs.size() at most
MemEndOffset == 8        \* memoryInstance->endOffset of the one memory
U32Bits == 3             \* width the model gives U32
U64Bits == 6             \* width the model gives U64
F64Max == 4096           \* largest finite double the model has
NumLaunchers == 2        \* threads that call launchThread
MaxLaunches == 3         \* launchThread calls they make in all
NumElements == 2         \* elements of the table launchThread is given

Threads == 1 .. NumThreads
NULL == 0
NoThread == NULL

RECURSIVE Pow2(_)
Pow2(n) == IF n = 0 THEN 1 ELSE 2 * Pow2(n - 1)

UINT32_MAX == Pow2(U32Bits) - 1
UINT64_MAX == Pow2(U64Bits) - 1

Min(S) == CHOOSE x \in S : \A y \in S : x <= y

\* ----------------------------------------------------------- F64 timeouts
\* A double is NaN, an infinity, or a finite rational s * num / den
\* (s = -1 with num = 0 is -0.0).
NaN == [k |-> "nan", s |-> 1, num |-> 0, den |-> 1]
PosInf == [k |-> "inf", s |-> 1, num |-> 0, den |-> 1]
NegInf == [k |-> "inf", s |-> -1, num |-> 0, den |-> 1]
Fin(s, num, den) == [k |-> "fin", s |-> s, num |-> num, den |-> den]

\* timeout * 1000.0: a product beyond the largest finite double is an
\* infinity of the same sign.
TimesThousand(x) ==
    IF x.k # "fin" THEN x
    ELSE IF 1000 * x.num > F64Max * x.den
    THEN (IF x.s < 0 THEN NegInf ELSE PosInf)
    ELSE [x EXCEPT !.num = 1000 * x.num]

\* F64(UINT64_MAX - 1): the conversion rounds to the nearest double, which is
\* 2^64 (a double has fewer mantissa bits than a U64 has bits).
F64OfUINT64MaxMinusOne == UINT64_MAX + 1

\* x truncated toward zero, for a positive finite x.
TruncToU64(x) == x.num \div x.den

\* U64(x) for a positive finite x, line 113: the truncation when a U64 can
\* hold it; otherwise the conversion is undefined and can yield any U64.
U64OfF64(x) ==
    IF TruncToU64(x) <= UINT64_MAX THEN {TruncToU64(x)} ELSE 0 .. UINT64_MAX

Fatal == -1

\* getEndTimeFromTimeout where U64(timeoutMicroseconds) yields converted;
\* Fatal when errorUnless(endTime >= startTime) fails.
EndTimeWith(startTime, timeout, converted) ==
    LET timeoutMicroseconds == TimesThousand(timeout)
    IN  IF timeoutMicroseconds.k # "fin"
        THEN UINT64_MAX
        ELSE IF timeoutMicroseconds.s < 0 \/ timeoutMicroseconds.num = 0
        THEN startTime
        ELSE IF timeoutMicroseconds.num
                  <= F64OfUINT64MaxMinusOne * timeoutMicroseconds.den
        THEN LET endTime == (startTime + converted) % Pow2(U64Bits)
             IN  IF endTime >= startTime THEN endTime ELSE Fatal
        ELSE UINT64_MAX

\* getEndTimeFromTimeout, lines 101-118: the values the call can produce.
getEndTimeFromTimeout(startTime, timeout) ==
    {EndTimeWith(startTime, timeout, converted) :
       converted \in U64OfF64(TimesThousand(timeout))}

\* The timeouts the calls of the wait/wake model are made with: NaN (an
\* infinite wait), -0.0 (the deadline is now), one clock unit.
Timeouts == {NaN, Fin(-1, 0, 1), Fin(1, 1, 1000)}

\* ---------------------------------------------------------------- memory
\* The 32-bit words of the memory that lie below endOffset, by byte offset.
Cells == {o \in 0 .. (MemEndOffset - 1) : o % 4 = 0}
WordValues == {0, 1}
\* The words the threads store to.
StoredCells == {0}

Ops == {"atomic_wake", "atomic_wait_i32", "atomic_wait_i64"}
IsWait(op) == op \in {"atomic_wait_i32", "atomic_wait_i64"}
AccessWidth(op) == IF op = "atomic_wait_i64" THEN 8 ELSE 4

\* The pre-validation of atomic_wake / atomic_wait_i32 / atomic_wait_i64
\* (lines 220-221, 232-233, 243-244): the trap the call throws, or "none".
Validate_Inclusive(op, addressOffset) ==
    IF addressOffset >= MemEndOffset THEN "accessViolation"
    ELSE IF addressOffset % AccessWidth(op) # 0
    THEN "misalignedAtomicMemoryAccess"
    ELSE "none"

Validate(op, addressOffset) ==
    IF addressOffset > MemEndOffset THEN "accessViolation"
    ELSE IF addressOffset % AccessWidth(op) # 0
    THEN "misalignedAtomicMemoryAccess"
    ELSE "none"

\* What the calls are made with.  Offsets: in bounds (0, and 4 for the 64-bit
\* wait, which it misaligns), misaligned (2), at endOffset (the wake, which
\* reads no memory), past endOffset (misaligned and aligned).
Calls ==
    [op : {"atomic_wake"},
     addressOffset : {0, 2, MemEndOffset, MemEndOffset + 2, MemEndOffset + 8},
     numToWake : {0, 1, UINT32_MAX}, expectedValue : {<<>>}, timeout : {NaN}]
    \cup
    [op : {"atomic_wait_i32"},
     addressOffset : {0, 2, MemEndOffset + 2, MemEndOffset + 8},
     numToWake : {0}, expectedValue : {<<0>>, <<1>>}, timeout : Timeouts]
    \cup
    [op : {"atomic_wait_i64"},
     addressOffset : {0, 4, MemEndOffset + 2, MemEndOffset + 8},
     numToWake : {0}, expectedValue : {<<0, 0>>, <<1, 0>>}, timeout : Timeouts]

\* The calls of the interleaving model: wakes of one or of all waiters on two
\* addresses, 32-bit waits for the value 0 without deadline or with the
\* deadline already reached.
CoreCalls ==
    [op : {"atomic_wake"}, addressOffset : {0, MemEndOffset},
     numToWake : {1, UINT32_MAX}, expectedValue : {<<>>}, timeout : {NaN}]
    \cup
    [op : {"atomic_wait_i32"}, addressOffset : {0},
     numToWake : {0}, expectedValue : {<<0>>}, timeout : {NaN, Fin(-1, 0, 1)}]

\* The calls of the one-address model: wakes of one waiter and waits on
\* address 0.
KeyCalls == {c \in CoreCalls : c.addressOffset = 0 /\ c.numToWake # UINT32_MAX}

\* The calls of the two-address model: wakes of one waiter on two addresses and
\* waits on address 0 whose deadline is already reached.
TwoKeyCalls ==
    {c \in CoreCalls : /\ c.numToWake # UINT32_MAX
                       /\ IsWait(c.op) => c.timeout = Fin(-1, 0, 1)}

\* The address keys: the offsets a call passes the pre-validation with.
Addresses ==
    {c.addressOffset : c \in {d \in Calls : Validate(d.op, d.addressOffset) = "none"}}

\* One WaitList per thread and address can be live at once, and as many
\* dangling pointers: the heap never runs out.
ObjIds == 1 .. (2 * NumThreads + Cardinality(Addresses))

VARIABLES
    frame,                  \* per thread: the locals of its current call
    callsLeft,              \* calls the threads may still make
    storesLeft,             \* stores the threads may still make
    started,                \* threads that have made a call (1 .. started)
    heap,                   \* WaitList objects by address (id)
    addressToWaitListMap,   \* address -> WaitList* (NULL: no entry)
    threadWakeEvent,        \* per thread: has its wake event been created
    eventSignaled,          \* per thread: is its wake event signaled
    memory,                 \* the words of the memory below endOffset
    now,                    \* Platform::getMonotonicClock()
    crashed,                \* the process was terminated (fatal error, abort)
    tokenState,             \* history: what happened to the token in this call
    registered,             \* history: per address, the waiters whose tokens
                            \*   are on a wait list, oldest registration first
    owed,                   \* history: addresses stored to, wake still owed
    tally,                  \* history: per address, the sum of the values the
                            \*   wakes returned and the number of waits that
                            \*   returned 0
    emit,                   \* the state of one emitModule call
    decode,                 \* the state of one getEndTimeFromTimeout call
    spawn                   \* the thread registry: launchThread, threadFunc

vars == <<frame, callsLeft, storesLeft, started, heap, addressToWaitListMap,
          threadWakeEvent, eventSignaled, memory, now, crashed, tokenState,
          registered, owed, tally, emit, decode, spawn>>

\* ---------------------------------------------------------------- frames
\* A thread outside any call.
IdleFrame ==
    [pc |-> "idle", op |-> "none", address |-> NULL, expectedValue |-> <<>>,
     endTime |-> 0, waitList |-> NULL, numToWake |-> 0, actualNumToWake |-> 0,
     wakeIndex |-> 0, timedOut |-> FALSE, notEqual |-> FALSE, covers |-> FALSE,
     ret |-> 0, trap |-> "none"]

\* A deleted WaitList (what the heap holds where no WaitList lives).
Freed ==
    [live |-> FALSE, mutex |-> NoThread, wakeEvents |-> <<>>,
     numReferences |-> 0]

\* WaitList::WaitList(), line 29: a fresh mutex, no events, numReferences(1).
NewWaitList ==
    [live |-> TRUE, mutex |-> NoThread, wakeEvents |-> <<>>,
     numReferences |-> 1]

\* atomicLoad(valuePointer), lines 83-88: the words the access covers, low
\* word first.
atomicLoad_NextWord(op, address) == <<memory[address + 4]>>

atomicLoad(op, address) ==
    IF op = "atomic_wait_i64"
    THEN <<memory[address], memory[address + 4]>>
    ELSE <<memory[address]>>

\* The addresses where operator new can place a WaitList: any free cell.  Free
\* cells nothing points to are interchangeable, so the lowest stands for them;
\* a free cell a thread or the map still points to makes that pointer name the
\* new object.
Dangling ==
    ({frame[u].waitList : u \in Threads}
       \cup {addressToWaitListMap[a] : a \in Addresses}) \ {NULL}
FreeIds == {o \in ObjIds : ~heap[o].live}
NewAddresses ==
    (FreeIds \cap Dangling)
    \cup (IF FreeIds \ Dangling = {} THEN {} ELSE {Min(FreeIds \ Dangling)})

SeqToSet(q) == {q[i] : i \in 1 .. Len(q)}
RemoveAt(q, i) == SubSeq(q, 1, i - 1) \o SubSeq(q, i + 1, Len(q))
IndexOf(q, x) == Min({i \in 1 .. Len(q) : q[i] = x})
Max(S) == CHOOSE x \in S : \A y \in S : x >= y
RemoveFirst(q, x) == IF x \in SeqToSet(q) THEN RemoveAt(q, IndexOf(q, x)) ELSE q
RemoveLast(q, x) ==
    IF x \in SeqToSet(q)
    THEN RemoveAt(q, Max({i \in 1 .. Len(q) : q[i] = x}))
    ELSE q

\* The registration history once the tokens of the waiters us have been taken
\* off a wait list opened for address: each waiter's oldest registration under
\* that address (under whichever address it has one, when the list served
\* another address too).
Forget(reg, address, u) ==
    IF u \in SeqToSet(reg[address])
    THEN [reg EXCEPT ![address] = RemoveFirst(@, u)]
    ELSE [a \in Addresses |-> RemoveFirst(reg[a], u)]

RECURSIVE ForgetAll(_, _, _)
ForgetAll(reg, address, us) ==
    IF us = <<>> THEN reg
    ELSE ForgetAll(Forget(reg, address, Head(us)), address, Tail(us))

\* The value a call returns once its wait list is closed: waitOnAddress lines
\* 136 and 170, wakeAddress lines 201-205.
ReturnValue_TimeoutAsWoken(f) ==
    IF IsWait(f.op) THEN (IF f.notEqual THEN 1 ELSE 0) ELSE f.actualNumToWake

ReturnValue(f) ==
    IF IsWait(f.op)
    THEN (IF f.notEqual THEN 1 ELSE IF f.timedOut THEN 2 ELSE 0)
    ELSE IF f.actualNumToWake > UINT32_MAX THEN 0
    ELSE f.actualNumToWake

\* The trap wakeAddress throws instead of returning, lines 201-204.
ReturnTrap(f) ==
    IF ~IsWait(f.op) /\ f.actualNumToWake > UINT32_MAX
    THEN "integerDivideByZeroOrIntegerOverflow"
    ELSE "none"

\* The frame of a call that has returned from waitOnAddress or wakeAddress:
\* what the caller sees.
Returned(f) ==
    [IdleFrame EXCEPT !.pc = "returned", !.op = f.op, !.ret = ReturnValue(f),
                      !.trap = ReturnTrap(f)]

\* The thread is in none of the intrinsics: it has made no call yet, or its
\* last call has returned.
Outside(t) == frame[t].pc \in {"idle", "returned"}

\* A finished wake that asked for every waiter, begun after the last store to
\* its address, pays the wake that store owed.
OwedAfter(t) ==
    IF frame[t].covers THEN [owed EXCEPT ![frame[t].address] = FALSE] ELSE owed

\* No call has returned yet.
NoReturns ==
    [wakes |-> [a \in Addresses |-> 0], waits |-> [a \in Addresses |-> 0]]

\* The tally once the call of thread t has returned from closeWaitList: a wake
\* adds the value it returns, a wait that returns 0 adds one.
TallyAfter(t) ==
    LET f == frame[t]
    IN  IF IsWait(f.op)
        THEN IF ReturnValue(f) = 0
             THEN [tally EXCEPT !.waits[f.address] = @ + 1]
             ELSE tally
        ELSE IF ReturnTrap(f) = "none"
        THEN [tally EXCEPT !.wakes[f.address] = @ + ReturnValue(f)]
        ELSE tally

\* ------------------------------------------------------------- the calls
\* The process is terminated (Errors::fatalf, abort): nothing of it is left.
Terminate ==
    /\ crashed' = TRUE
    /\ frame' = [t \in Threads |-> IdleFrame]
    /\ callsLeft' = 0
    /\ storesLeft' = 0
    /\ started' = 0
    /\ heap' = [o \in ObjIds |-> Freed]
    /\ addressToWaitListMap' = [a \in Addresses |-> NULL]
    /\ threadWakeEvent' = [t \in Threads |-> FALSE]
    /\ eventSignaled' = [t \in Threads |-> FALSE]
    /\ memory' = [c \in Cells |-> 0]
    /\ now' = 0
    /\ tokenState' = [t \in Threads |-> "none"]
    /\ registered' = [a \in Addresses |-> <<>>]
    /\ owed' = [a \in Addresses |-> FALSE]
    /\ tally' = NoReturns
    /\ emit' = emit
    /\ decode' = decode
    /\ spawn' = spawn

\* wakeAddress, line 175: if(numToWake == 0) { return 0; }
WakesNone_Never(numToWake) == FALSE
WakesNone(numToWake) == numToWake = 0

\* The frame a call of c has once it has passed the pre-validation and opened
\* waitList.
Entered(c, endTime, waitList) ==
    [IdleFrame EXCEPT !.pc = IF IsWait(c.op) THEN "wait_check" ELSE "wake_lock",
                      !.op = c.op, !.address = c.addressOffset,
                      !.expectedValue = c.expectedValue,
                      !.endTime = IF IsWait(c.op) THEN endTime ELSE 0,
                      !.waitList = waitList,
                      !.numToWake = c.numToWake,
                      !.actualNumToWake = c.numToWake,
                      !.covers = (c.op = "atomic_wake" /\ c.numToWake = UINT32_MAX)]

\* The frame of a call of c that has thrown trap, or (trap being "none")
\* returned 0, before it opened a wait list; the caller still has the arguments
\* it passed.
Rejected(c, trap) ==
    [IdleFrame EXCEPT !.pc = "returned", !.op = c.op, !.address = c.addressOffset,
                      !.expectedValue = c.expectedValue,
                      !.numToWake = c.numToWake, !.trap = trap]

\* openWaitList(address), lines 48-63, under addressToWaitListMapMutex, by a
\* thread whose call is c: the wait list found gets one more reference, or a
\* new one is entered in the map.  Where the map points to a deleted WaitList,
\* the increment is done on what the freed memory holds.
openWaitList(t, c, endTime) ==
    LET address == c.addressOffset
        found == addressToWaitListMap[address]
    IN  IF found # NULL
        THEN /\ heap' = [heap EXCEPT ![found].numReferences = @ + 1]
             /\ frame' = [frame EXCEPT ![t] = Entered(c, endTime, found)]
             /\ UNCHANGED addressToWaitListMap
        ELSE \E waitList \in NewAddresses :
               /\ heap' = [heap EXCEPT ![waitList] = NewWaitList]
               /\ addressToWaitListMap' =
                    [addressToWaitListMap EXCEPT ![address] = waitList]
               /\ frame' = [frame EXCEPT ![t] = Entered(c, endTime, waitList)]

\* A thread calls an intrinsic with one of the calls of S.  The pre-validation
\* (lines 215-248), the deadline of a wait (line 123) and the numToWake == 0
\* exit of a wake (line 175) touch nothing another thread can see: they are
\* one step with the openWaitList that follows (lines 127, 178).  Threads are
\* numbered in the order of their first calls.
CallOf(t, S) ==
    /\ ~crashed
    /\ Outside(t)
    /\ callsLeft > 0
    /\ t <= started + 1
    /\ \E c \in S : \E endTime \in getEndTimeFromTimeout(now, c.timeout) :
         LET trap == Validate(c.op, c.addressOffset)
         IN  IF trap = "none" /\ IsWait(c.op) /\ endTime = Fatal
             THEN Terminate
             ELSE /\ IF trap # "none"
                     THEN /\ frame' = [frame EXCEPT ![t] = Rejected(c, trap)]
                          /\ UNCHANGED <<heap, addressToWaitListMap>>
                     ELSE IF c.op = "atomic_wake" /\ WakesNone(c.numToWake)
                     THEN /\ frame' = [frame EXCEPT ![t] = Rejected(c, "none")]
                          /\ UNCHANGED <<heap, addressToWaitListMap>>
                     ELSE /\ IsWait(c.op)
                               => (endTime = UINT64_MAX \/ endTime <= MaxClock)
                          /\ openWaitList(t, c, endTime)
                  /\ callsLeft' = callsLeft - 1
                  /\ started' = IF t > started THEN t ELSE started
                  /\ tokenState' = [tokenState EXCEPT ![t] = "none"]
                  /\ UNCHANGED <<storesLeft, threadWakeEvent, eventSignaled,
                                 memory, now, crashed, owed, tally, registered, emit, decode, spawn>>

Call(t) == CallOf(t, CoreCalls)

ApiCall(t) == CallOf(t, Calls)

KeyCall(t) == CallOf(t, KeyCalls)

TwoKeyCall(t) == CallOf(t, TwoKeyCalls)

\* waitList->wakeEvents.push_back(threadWakeEvent), line 144
PushBack(wakeEvents, event) == Append(wakeEvents, event)

\* What locking the mutex of the wait list at o can do: the lock is taken; or,
\* the WaitList having been deleted and its mutex destroyed (line 30), the
\* process dies or the thread never gets the lock.
LockOutcomes(o) == IF heap[o].live THEN {"lock"} ELSE {"lock", "abort", "hang"}

\* The thread stays in lockMutex for ever.
Hang(t) ==
    /\ frame' = [frame EXCEPT ![t].pc = "hung"]
    /\ UNCHANGED <<callsLeft, storesLeft, started, heap, addressToWaitListMap,
                   threadWakeEvent, eventSignaled, memory, now, crashed,
                   tokenState, registered, owed, tally, emit, decode, spawn>>

\* waitOnAddress, lines 130-146: the value check under the wait-list mutex.
WaitCheck(t) ==
    /\ ~crashed
    /\ frame[t].pc = "wait_check"
    /\ heap[frame[t].waitList].mutex = NoThread
    /\ \E outcome \in LockOutcomes(frame[t].waitList) :
         IF outcome = "abort" THEN Terminate
         ELSE IF outcome = "hang" THEN Hang(t)
         ELSE
           /\ LET waitList == frame[t].waitList
              IN  IF atomicLoad(frame[t].op, frame[t].address)
                       # frame[t].expectedValue
                  THEN /\ frame' = [frame EXCEPT ![t].pc = "close",
                                                 ![t].notEqual = TRUE]
                       /\ UNCHANGED <<heap, threadWakeEvent, tokenState,
                                      registered>>
                  ELSE /\ threadWakeEvent' = [threadWakeEvent EXCEPT ![t] = TRUE]
                       /\ heap' = [heap EXCEPT
                              ![waitList].wakeEvents = PushBack(@, t)]
                       /\ registered' = [registered EXCEPT
                              ![frame[t].address] = Append(@, t)]
                       /\ frame' = [frame EXCEPT ![t].pc = "wait_event"]
                       /\ tokenState' = [tokenState EXCEPT ![t] = "registered"]
           /\ UNCHANGED <<callsLeft, storesLeft, started, addressToWaitListMap,
                          eventSignaled, memory, now, crashed, owed, tally, emit, decode, spawn>>

\* Platform::waitForEvent(threadWakeEvent, endTime) returns true, line 150: the
\* event was signaled; the wait resets it.
WaitWoken(t) ==
    /\ ~crashed
    /\ frame[t].pc = "wait_event"
    /\ eventSignaled[t]
    /\ eventSignaled' = [eventSignaled EXCEPT ![t] = FALSE]
    /\ frame' = [frame EXCEPT ![t].pc = "close"]
    /\ UNCHANGED <<callsLeft, storesLeft, started, heap, addressToWaitListMap,
                   threadWakeEvent, memory, now, crashed, tokenState, owed, tally, registered, emit, decode, spawn>>

\* Platform::waitForEvent(threadWakeEvent, endTime) returns false, line 150: the
\* deadline passed with the event unsignaled.
WaitTimedOut(t) ==
    /\ ~crashed
    /\ frame[t].pc = "wait_event"
    /\ ~eventSignaled[t]
    /\ now >= frame[t].endTime
    /\ frame' = [frame EXCEPT ![t].pc = "timeout_check"]
    /\ UNCHANGED <<callsLeft, storesLeft, started, heap, addressToWaitListMap,
                   threadWakeEvent, eventSignaled, memory, now, crashed,
                   tokenState, owed, tally, registered, emit, decode, spawn>>

\* waitOnAddress, lines 153-167: under the wait-list mutex, the timed-out
\* waiter looks for its event; not finding it, it consumes the signal with an
\* immediately expiring wait, which errorUnless requires to succeed.
TimeoutCheck(t) ==
    /\ ~crashed
    /\ frame[t].pc = "timeout_check"
    /\ heap[frame[t].waitList].mutex = NoThread
    /\ \E outcome \in LockOutcomes(frame[t].waitList) :
         IF outcome = "abort" THEN Terminate
         ELSE IF outcome = "hang" THEN Hang(t)
         ELSE
           LET waitList == frame[t].waitList
               wakeEvents == heap[waitList].wakeEvents
           IN  IF t \in SeqToSet(wakeEvents)
               THEN /\ heap' = [heap EXCEPT
                           ![waitList].wakeEvents = RemoveAt(@, IndexOf(@, t))]
                    /\ registered' = [registered EXCEPT
                           ![frame[t].address] = RemoveLast(@, t)]
                    /\ frame' = [frame EXCEPT ![t].pc = "close",
                                              ![t].timedOut = TRUE]
                    /\ UNCHANGED <<callsLeft, storesLeft, started,
                                   addressToWaitListMap, threadWakeEvent,
                                   eventSignaled, memory, now, crashed,
                                   tokenState, owed, tally, emit, decode, spawn>>
               ELSE IF ~eventSignaled[t]
               THEN Terminate
               ELSE /\ frame' = [frame EXCEPT ![t].pc = "close"]
                    /\ eventSignaled' = [eventSignaled EXCEPT ![t] = FALSE]
                    /\ UNCHANGED <<callsLeft, storesLeft, started, heap,
                                   addressToWaitListMap, threadWakeEvent,
                                   memory, now, crashed, tokenState, owed,
                                   tally, registered, emit, decode, spawn>>

\* wakeAddress, lines 185-188
ClampNumToWake(numToWake, size) ==
    IF numToWake = UINT32_MAX \/ numToWake > size THEN size ELSE numToWake

\* wakeAddress, lines 181-188: the waker takes the wait-list mutex and counts.
WakeLock(t) ==
    /\ ~crashed
    /\ frame[t].pc = "wake_lock"
    /\ heap[frame[t].waitList].mutex = NoThread
    /\ \E outcome \in LockOutcomes(frame[t].waitList) :
         IF outcome = "abort" THEN Terminate
         ELSE IF outcome = "hang" THEN Hang(t)
         ELSE
           LET waitList == frame[t].waitList
           IN  /\ heap' = [heap EXCEPT ![waitList].mutex = t]
               /\ frame' = [frame EXCEPT
                      ![t].pc = "wake_loop",
                      ![t].actualNumToWake =
                          ClampNumToWake(@, Len(heap[waitList].wakeEvents))]
               /\ UNCHANGED <<callsLeft, storesLeft, started,
                              addressToWaitListMap, threadWakeEvent,
                              eventSignaled, memory, now, crashed, tokenState,
                              owed, tally, registered, emit, decode, spawn>>

\* The event the loop of lines 191-194 signals at wakeIndex.
EventAt(wakeEvents, wakeIndex) == wakeEvents[wakeIndex + 1]

\* What wakeEvents[wakeIndex] can be when the WaitList was deleted under the
\* waker and its vector no longer reaches wakeIndex: the read of freed storage
\* yields the event of some thread, or the process dies.
StaleEvents == {e \in Threads : threadWakeEvent[e]}

\* wakeAddress, lines 191-194: one signalEvent of the loop.
WakeSignal(t) ==
    /\ ~crashed
    /\ frame[t].pc = "wake_loop"
    /\ frame[t].wakeIndex < frame[t].actualNumToWake
    /\ LET waitList == frame[t].waitList
           wakeEvents == heap[waitList].wakeEvents
       IN  IF frame[t].wakeIndex < Len(wakeEvents)
           THEN LET event == EventAt(wakeEvents, frame[t].wakeIndex)
                IN  /\ eventSignaled' = [eventSignaled EXCEPT ![event] = TRUE]
                    /\ tokenState' = [tokenState EXCEPT ![event] =
                           IF /\ @ = "registered"
                              /\ frame[event].pc \in {"wait_event", "timeout_check"}
                              /\ frame[event].waitList = waitList
                              /\ frame[event].address = frame[t].address
                           THEN "signaled" ELSE "stray"]
                    /\ frame' = [frame EXCEPT ![t].wakeIndex = @ + 1]
                    /\ UNCHANGED <<callsLeft, storesLeft, started, heap,
                                   addressToWaitListMap, threadWakeEvent, memory,
                                   now, crashed, owed, tally, registered, emit, decode, spawn>>
           ELSE \E event \in StaleEvents \cup {NoThread} :
                  IF event = NoThread
                  THEN Terminate
                  ELSE /\ eventSignaled' = [eventSignaled EXCEPT ![event] = TRUE]
                       /\ tokenState' = [tokenState EXCEPT ![event] = "stray"]
                       /\ frame' = [frame EXCEPT ![t].wakeIndex = @ + 1]
                       /\ UNCHANGED <<callsLeft, storesLeft, started, heap,
                                      addressToWaitListMap, threadWakeEvent,
                                      memory, now, crashed, owed, tally, registered,
                                      emit, decode, spawn>>

\* wakeEvents.erase(begin, begin + actualNumToWake), line 197
EraseFirst(wakeEvents, n) == SubSeq(wakeEvents, n + 1, Len(wakeEvents))

\* wakeAddress, lines 197-198: the erase, and the unlock at the scope's end.
\* Where the WaitList was deleted under the waker and holds fewer events than
\* the waker counted, the erase runs over freed storage: the process dies, or
\* what is there is erased.
WakeErase(t) ==
    /\ ~crashed
    /\ frame[t].pc = "wake_loop"
    /\ frame[t].wakeIndex >= frame[t].actualNumToWake
    /\ LET waitList == frame[t].waitList
           n == frame[t].actualNumToWake
           wakeEvents == heap[waitList].wakeEvents
       IN  \E outcome \in IF n <= Len(wakeEvents) THEN {"erase"}
                          ELSE {"erase", "abort"} :
             IF outcome = "abort"
             THEN Terminate
             ELSE LET m == IF n <= Len(wakeEvents) THEN n ELSE Len(wakeEvents)
                      woken == SubSeq(wakeEvents, 1, m)
                  IN  /\ heap' = [heap EXCEPT
                             ![waitList].wakeEvents = EraseFirst(@, m),
                             ![waitList].mutex = NoThread]
                      /\ registered' = ForgetAll(registered, frame[t].address, woken)
                      /\ frame' = [frame EXCEPT ![t].pc = "close"]
                      /\ UNCHANGED <<callsLeft, storesLeft, started,
                                     addressToWaitListMap, threadWakeEvent,
                                     eventSignaled, memory, now, crashed,
                                     tokenState, owed, tally, emit, decode, spawn>>

\* closeWaitList, line 68: the atomic decrement, outside every mutex.
Close(t) ==
    /\ ~crashed
    /\ frame[t].pc = "close"
    /\ LET waitList == frame[t].waitList
       IN  /\ heap' = [heap EXCEPT ![waitList].numReferences = @ - 1]
           /\ IF heap[waitList].numReferences - 1 = 0
              THEN /\ frame' = [frame EXCEPT ![t].pc = "close_check"]
                   /\ UNCHANGED <<owed, tally>>
              ELSE /\ frame' = [frame EXCEPT
                          ![t] = Returned(@)]
                   /\ owed' = OwedAfter(t)
                   /\ tally' = TallyAfter(t)
    /\ UNCHANGED <<callsLeft, storesLeft, started, addressToWaitListMap,
                   threadWakeEvent, eventSignaled, memory, now, crashed,
                   tokenState, registered, emit, decode, spawn>>

\* What the re-check of line 71 and the body of lines 73-75 can do, given the
\* object the pointer names:
\*   "keep"   numReferences was read non-zero: nothing is deleted;
\*   "delete" it was read zero: the WaitList is deleted and the address erased;
\*   "erase"  it was read zero through a pointer to a deleted WaitList and the
\*            second delete went unnoticed: only the erase has an effect;
\*   "abort"  the assertion of line 73 failed, or the allocator caught the
\*            second delete.
\* A deleted WaitList's memory holds whatever was written there since.
CloseOutcomes(waitList) ==
    IF heap[waitList].live
    THEN IF heap[waitList].numReferences # 0 THEN {"keep"}
         ELSE IF heap[waitList].wakeEvents = <<>> THEN {"delete"}
         ELSE {"delete", "abort"}
    ELSE {"keep", "erase", "abort"}

\* closeWaitList, lines 70-77, under addressToWaitListMapMutex; then the call
\* returns.
CloseCheck(t) ==
    /\ ~crashed
    /\ frame[t].pc = "close_check"
    /\ \E outcome \in CloseOutcomes(frame[t].waitList) :
         IF outcome = "abort"
         THEN Terminate
         ELSE /\ heap' = IF outcome = "delete"
                         THEN [heap EXCEPT ![frame[t].waitList] = Freed]
                         ELSE heap
              /\ addressToWaitListMap' =
                   IF outcome \in {"delete", "erase"}
                   THEN [addressToWaitListMap EXCEPT ![frame[t].address] = NULL]
                   ELSE addressToWaitListMap
              /\ frame' = [frame EXCEPT ![t] = Returned(@)]
              /\ owed' = OwedAfter(t)
              /\ tally' = TallyAfter(t)
              /\ UNCHANGED <<callsLeft, storesLeft, started, threadWakeEvent,
                             eventSignaled, memory, now, crashed, tokenState,
                             registered, emit, decode, spawn>>

\* A thread outside the intrinsics stores to a word of the memory (atomicStore,
\* lines 92-98).  A wake under way no longer follows the last store.
Store(t) ==
    /\ ~crashed
    /\ Outside(t)
    /\ storesLeft > 0
    /\ t <= started + 1
    /\ \E c \in StoredCells : \E v \in WordValues \ {memory[c]} :
         /\ memory' = [memory EXCEPT ![c] = v]
         /\ owed' = [a \in Addresses |-> owed[a] \/ c \in {a, a + 4}]
         /\ frame' = [u \in Threads |->
                        IF frame[u].covers /\ frame[u].address \in {c, c - 4}
                        THEN [frame[u] EXCEPT !.covers = FALSE] ELSE frame[u]]
    /\ storesLeft' = storesLeft - 1
    /\ UNCHANGED <<callsLeft, started, heap, addressToWaitListMap,
                   threadWakeEvent, eventSignaled, now, crashed, tokenState,
                   registered, tally, emit, decode, spawn>>

\* The monotonic clock advances.
Tick ==
    /\ ~crashed
    /\ now < MaxClock
    /\ now' = now + 1
    /\ UNCHANGED <<frame, callsLeft, storesLeft, started, heap,
                   addressToWaitListMap, threadWakeEvent, eventSignaled, memory,
                   crashed, tokenState, owed, tally, registered, emit, decode, spawn>>

\* No emitModule call is under way.
EmitIdle == [pc |-> "idle"]

\* The wait/wake runtime after static initialisation, the threads having calls
\* and stores to make.
ThreadsInit(calls, stores) ==
    /\ frame = [t \in Threads |-> IdleFrame]
    /\ callsLeft = calls
    /\ storesLeft = stores
    /\ started = 0
    /\ heap = [o \in ObjIds |-> Freed]
    /\ addressToWaitListMap = [a \in Addresses |-> NULL]
    /\ threadWakeEvent = [t \in Threads |-> FALSE]
    /\ eventSignaled = [t \in Threads |-> FALSE]
    /\ memory = [c \in Cells |-> 0]
    /\ now = 0
    /\ crashed = FALSE
    /\ tokenState = [t \in Threads |-> "none"]
    /\ registered = [a \in Addresses |-> <<>>]
    /\ owed = [a \in Addresses |-> FALSE]
    /\ tally = NoReturns

\* No getEndTimeFromTimeout call is under way on its own.
DecodeIdle == [pc |-> "idle"]

\* No launchThread call is made and no spawned thread runs.
SpawnIdle == [pc |-> "idle"]

InitWith(calls, stores) ==
    /\ ThreadsInit(calls, stores)
    /\ emit = EmitIdle
    /\ decode = DecodeIdle
    /\ spawn = SpawnIdle

Init == InitWith(MaxCalls, MaxStores)

\* The steps of a call under way.
Steps(t) ==
    \/ WaitCheck(t)
    \/ WaitWoken(t)
    \/ WaitTimedOut(t)
    \/ TimeoutCheck(t)
    \/ WakeLock(t)
    \/ WakeSignal(t)
    \/ WakeErase(t)
    \/ Close(t)
    \/ CloseCheck(t)

\* The interleaving model: any thread takes its next step.
Next ==
    \/ \E t \in Threads : Call(t)
    \/ \E t \in Threads : Steps(t)
    \/ \E t \in Threads : Store(t)

Spec == Init /\ [][Next]_vars

\* The interface model: fewer calls, made with every kind of argument, and a
\* clock that advances.
ApiInit == InitWith(MaxApiCalls, MaxStores)

ApiNext ==
    \/ \E t \in Threads : ApiCall(t)
    \/ \E t \in Threads : Steps(t)
    \/ \E t \in Threads : Store(t)
    \/ Tick

ApiSpec == ApiInit /\ [][ApiNext]_vars

\* The interface model under fair scheduling: a thread that can take a step
\* of its call takes one, and the clock advances.
FairApiSpec ==
    /\ ApiInit
    /\ [][ApiNext]_vars
    /\ \A t \in Threads : WF_vars(Steps(t))
    /\ WF_vars(Tick)

\* The one-address model: more calls, all on one address, no stores.
KeyInit == InitWith(MaxKeyCalls, 0)

KeyNext ==
    \/ \E t \in Threads : KeyCall(t)
    \/ \E t \in Threads : Steps(t)

KeySpec == KeyInit /\ [][KeyNext]_vars

\* The two-address model: as many calls, wakes on two addresses and waits that
\* time out at once, no stores.
TwoKeyInit == InitWith(MaxTwoKeyCalls, 0)

TwoKeyNext ==
    \/ \E t \in Threads : TwoKeyCall(t)
    \/ \E t \in Threads : Steps(t)

TwoKeySpec == TwoKeyInit /\ [][TwoKeyNext]_vars

\* ------------------------------------------------------------ emitModule
\* Sequences over S of length at most n.
SeqsUpTo(S, n) == UNION {[1 .. k -> S] : k \in 0 .. n}

\* The IR modules emitModule is called with: the sizes of the index spaces and,
\* for every imported and defined function, the index of its type.
IRModules ==
    UNION {[types : {T}, tables : 0 .. MaxTables, memories : 0 .. MaxMemories,
            globals : 0 .. MaxGlobals, exceptionTypes : 0 .. MaxExceptionTypes,
            imports : SeqsUpTo(0 .. (T - 1), MaxImports),
            defs : SeqsUpTo(0 .. (T - 1), MaxDefs)] : T \in 0 .. MaxTypes}

\* The targets the emitter is built for: _WIN32 defined or not, and
\* USE_WINDOWS_SEH, which only a Windows build sets.
Targets == {tg \in [win32 : BOOLEAN, seh : BOOLEAN] : tg.seh => tg.win32}

\* getExternalName(baseName, index): the base name followed by the index in
\* decimal.
getExternalName(baseName, index) == baseName \o ToString(index)

\* The name of function functionIndex, lines 186-188.
FunctionName_NotRebased(irModule, functionIndex) ==
    IF functionIndex >= Len(irModule.imports)
    THEN getExternalName("functionDef", functionIndex)
    ELSE getExternalName("functionImport", functionIndex)

FunctionName(irModule, functionIndex) ==
    IF functionIndex >= Len(irModule.imports)
    THEN getExternalName("functionDef", functionIndex - Len(irModule.imports))
    ELSE getExternalName("functionImport", functionIndex)

\* The personality function's name, lines 116-120.
PersonalityName(target) ==
    IF target.win32 THEN "__C_specific_handler" ELSE "__gxx_personality_v0"

\* An emitModule call at its entry, lines 105-109.
EmitEntry(irModule, target) ==
    [pc |-> "construct", irModule |-> irModule, target |-> target,
     index |-> 0,
     symbols |-> <<>>,          \* the external symbols of outLLVMModule, in
                                \*   the order of their creation
     typeIds |-> <<>>,          \* moduleContext.typeIds
     functions |-> <<>>,        \* moduleContext.functions
     personalityFn |-> {},      \* the functions that have a personality set
     prefixData |-> <<>>,       \* per definition compiled, its prefix data
     emitted |-> <<>>,          \* the definitions whose body has been emitted
     finalized |-> 0]           \* calls of diBuilder.finalize()

\* llvm::Function::Create / new llvm::GlobalVariable with external linkage.
CreateExternal(e, name) == [e EXCEPT !.symbols = Append(@, name)]

\* `++index` at the end of a loop body.
Advance(e) == [e EXCEPT !.index = @ + 1]

\* The loop condition `index < size` failing: the code after the loop, phase
\* next, is reached.
LoopExit(e, next) == [e EXCEPT !.pc = next, !.index = 0]

\* emitModule touches nothing of the wait/wake runtime.
RuntimeUnchanged ==
    UNCHANGED <<frame, callsLeft, storesLeft, started, heap,
                addressToWaitListMap, threadWakeEvent, eventSignaled, memory,
                now, crashed, tokenState, registered, owed, tally, decode, spawn>>

\* EmitModuleContext::EmitModuleContext, lines 38-93.
EmitConstruct ==
    /\ emit.pc = "construct"
    /\ RuntimeUnchanged
    /\ emit' = [(IF ~emit.target.seh
                 THEN CreateExternal(emit, "__cxa_begin_catch")
                 ELSE emit) EXCEPT !.pc = "personality"]

\* emitModule, lines 112-121.
EmitPersonality ==
    /\ emit.pc = "personality"
    /\ RuntimeUnchanged
    /\ emit' = [CreateExternal(emit, PersonalityName(emit.target))
                  EXCEPT !.pc = "typeIds"]

TypeIdBody(e, typeIndex) ==
    [CreateExternal(e, getExternalName("typeId", typeIndex))
       EXCEPT !.typeIds = Append(@, getExternalName("typeId", typeIndex))]

\* emitModule, lines 125-130.
EmitTypeId ==
    /\ emit.pc = "typeIds"
    /\ RuntimeUnchanged
    /\ emit' = IF emit.index < emit.irModule.types
               THEN Advance(TypeIdBody(emit, emit.index))
               ELSE LoopExit(emit, "tableOffsets")

TableOffsetBody(e, tableIndex) ==
    CreateExternal(e, getExternalName("tableOffset", tableIndex))

\* emitModule, lines 134-141.
EmitTableOffset ==
    /\ emit.pc = "tableOffsets"
    /\ RuntimeUnchanged
    /\ emit' = IF emit.index < emit.irModule.tables
               THEN Advance(TableOffsetBody(emit, emit.index))
               ELSE LoopExit(emit, "memoryOffsets")

MemoryOffsetBody(e, memoryIndex) ==
    CreateExternal(e, getExternalName("memoryOffset", memoryIndex))

\* emitModule, lines 145-152.
EmitMemoryOffset ==
    /\ emit.pc = "memoryOffsets"
    /\ RuntimeUnchanged
    /\ emit' = IF emit.index < emit.irModule.memories
               THEN Advance(MemoryOffsetBody(emit, emit.index))
               ELSE LoopExit(emit, "globals")

GlobalBody(e, globalIndex) ==
    CreateExternal(e, getExternalName("global", globalIndex))

\* emitModule, lines 155-159.
EmitGlobal ==
    /\ emit.pc = "globals"
    /\ RuntimeUnchanged
    /\ emit' = IF emit.index < emit.irModule.globals
               THEN Advance(GlobalBody(emit, emit.index))
               ELSE LoopExit(emit, "exceptionTypes")

ExceptionTypeBody(e, exceptionTypeIndex) ==
    CreateExternal(e, getExternalName("exceptionType", exceptionTypeIndex))

\* emitModule, lines 163-168.
EmitExceptionType ==
    /\ emit.pc = "exceptionTypes"
    /\ RuntimeUnchanged
    /\ emit' = IF emit.index < emit.irModule.exceptionTypes
               THEN Advance(ExceptionTypeBody(emit, emit.index))
               ELSE LoopExit(emit, "moduleInstance")

\* emitModule, lines 171-175.
EmitModuleInstance ==
    /\ emit.pc = "moduleInstance"
    /\ RuntimeUnchanged
    /\ emit' = [CreateExternal(CreateExternal(emit, "moduleInstance"),
                               "tableReferenceBias")
                  EXCEPT !.pc = "functions"]

FunctionBody(e, functionIndex) ==
    [CreateExternal(e, FunctionName(e.irModule, functionIndex))
       EXCEPT !.functions = Append(@, FunctionName(e.irModule, functionIndex))]

\* emitModule, lines 178-192.
EmitFunction ==
    /\ emit.pc = "functions"
    /\ RuntimeUnchanged
    /\ emit' = IF emit.index < Len(emit.irModule.imports) + Len(emit.irModule.defs)
               THEN Advance(FunctionBody(emit, emit.index))
               ELSE LoopExit(emit, "defs")

\* The body of the loop of lines 195-214 for definition functionDefIndex.
FunctionDefBody_NoImportOffset(e, functionDefIndex) ==
    LET function == e.functions[functionDefIndex + 1]
        functionInstance == getExternalName("functionDefInstance", functionDefIndex)
        typeId == e.typeIds[e.irModule.defs[functionDefIndex + 1] + 1]
    IN  [CreateExternal(e, functionInstance)
           EXCEPT !.personalityFn = @ \cup {function},
                  !.prefixData = Append(@, [function |-> function,
                                            data |-> <<functionInstance, typeId>>]),
                  !.emitted = Append(@, function)]

FunctionDefBody(e, functionDefIndex) ==
    LET function == e.functions[Len(e.irModule.imports) + functionDefIndex + 1]
        functionInstance == getExternalName("functionDefInstance", functionDefIndex)
        typeId == e.typeIds[e.irModule.defs[functionDefIndex + 1] + 1]
    IN  [CreateExternal(e, functionInstance)
           EXCEPT !.personalityFn = @ \cup {function},
                  !.prefixData = Append(@, [function |-> function,
                                            data |-> <<functionInstance, typeId>>]),
                  !.emitted = Append(@, function)]

\* emitModule, lines 195-214.
EmitFunctionDef ==
    /\ emit.pc = "defs"
    /\ RuntimeUnchanged
    /\ emit' = IF emit.index < Len(emit.irModule.defs)
               THEN Advance(FunctionDefBody(emit, emit.index))
               ELSE LoopExit(emit, "finalize")

\* emitModule, lines 217-219.
EmitFinalize_Twice ==
    /\ emit.pc = "finalize"
    /\ RuntimeUnchanged
    /\ emit' = [emit EXCEPT !.pc = "done", !.finalized = @ + 2]

EmitFinalize ==
    /\ emit.pc = "finalize"
    /\ RuntimeUnchanged
    /\ emit' = [emit EXCEPT !.pc = "done", !.finalized = @ + 1]

\* The emitter model: one call of emitModule, on any module and target; the
\* wait/wake runtime is not running.
EmitInit ==
    /\ ThreadsInit(0, 0)
    /\ decode = DecodeIdle
    /\ spawn = SpawnIdle
    /\ \E irModule \in IRModules, target \in Targets :
         emit = EmitEntry(irModule, target)

EmitNext ==
    \/ EmitConstruct
    \/ EmitPersonality
    \/ EmitTypeId
    \/ EmitTableOffset
    \/ EmitMemoryOffset
    \/ EmitGlobal
    \/ EmitExceptionType
    \/ EmitModuleInstance
    \/ EmitFunction
    \/ EmitFunctionDef
    \/ EmitFinalize

EmitSpec == EmitInit /\ [][EmitNext]_vars

\* ------------------------------------------------- getEndTimeFromTimeout
\* The timeouts getEndTimeFromTimeout is called with on its own: NaN, the
\* infinities, the zeros, negative ones (the second beyond the largest finite
\* double once multiplied), fractions, values in range, the double that
\* F64(UINT64_MAX - 1) is (no double lies between UINT64_MAX - 1 and it), and
\* a value past it.
DecodeTimeouts ==
    {NaN, PosInf, NegInf, Fin(-1, 0, 1), Fin(1, 0, 1),
     Fin(-1, 1, 1000), Fin(-1, 5, 1), Fin(1, 5, 1),
     Fin(1, 1, 2000), Fin(1, 3, 2000), Fin(1, 1, 1000),
     Fin(1, Pow2(U64Bits - 1), 1000), Fin(1, UINT64_MAX - 1, 1000),
     Fin(1, F64OfUINT64MaxMinusOne, 1000), Fin(1, 2 * Pow2(U64Bits), 1000)}

\* A getEndTimeFromTimeout call at its entry.
DecodeEntry(startTime, timeout) ==
    [pc |-> "entry", startTime |-> startTime, timeout |-> timeout]

\* getEndTimeFromTimeout, lines 101-118: the call returns endTime, or the
\* process is terminated by errorUnless (endTime is Fatal).
DecodeCall ==
    /\ decode.pc = "entry"
    /\ \E endTime \in getEndTimeFromTimeout(decode.startTime, decode.timeout) :
         decode' = [pc |-> "returned", startTime |-> decode.startTime,
                    timeout |-> decode.timeout, endTime |-> endTime]
    /\ UNCHANGED <<frame, callsLeft, storesLeft, started, heap,
                   addressToWaitListMap, threadWakeEvent, eventSignaled, memory,
                   now, crashed, tokenState, registered, owed, tally, emit,
                   spawn>>

\* The decoding model: one call of getEndTimeFromTimeout with any start time
\* and any of the timeouts; nothing else is running.
DecodeInit ==
    /\ ThreadsInit(0, 0)
    /\ emit = EmitIdle
    /\ spawn = SpawnIdle
    /\ \E startTime \in 0 .. UINT64_MAX, timeout \in DecodeTimeouts :
         decode = DecodeEntry(startTime, timeout)

DecodeNext == DecodeCall

DecodeSpec == DecodeInit /\ [][DecodeNext]_vars

\* ------------------------------------------- launchThread and threadFunc
Launchers == 1 .. NumLaunchers
\* The addresses operator new can give a Thread record.
Records == 1 .. MaxLaunches

\* The table: the type of each element, by index; "thread" is the type
\* (i32) -> () that launchThread expects.
TableTypes == [e \in 0 .. (NumElements - 1) |-> IF e = 0 THEN "thread" ELSE "other"]
\* The element indices launchThread is called with: in the table, and the
\* first index past it.
ElementIndices == 0 .. NumElements

\* getFunctionFromTable, lines 250-264: the trap it throws, or "none".
getFunctionFromTable(expectedType, elementIndex) ==
    IF elementIndex >= NumElements THEN "undefinedTableElement"
    ELSE IF TableTypes[elementIndex] # expectedType
    THEN "indirectCallSignatureMismatch"
    ELSE "none"

\* The registry before any launchThread call.
SpawnEntry ==
    [pc |-> "running",
     threads |-> <<>>,                              \* the global list `threads`
     record |-> [r \in Records |-> "free"],         \* Thread objects: free,
                                                    \*   allocated, leaked, freed
     host |-> [r \in Records |-> "none"],           \* the host thread started
                                                    \*   for the record
     wakeEvent |-> [r \in Records |-> "none"],      \* its threadWakeEvent
     launch |-> [l \in Launchers |->
                   [pc |-> "idle", thread |-> NULL, trap |-> "none"]],
     launchesLeft |-> MaxLaunches,
     fatal |-> FALSE]

\* Nothing but the thread registry changes.
OnlySpawnChanges ==
    UNCHANGED <<frame, callsLeft, storesLeft, started, heap,
                addressToWaitListMap, threadWakeEvent, eventSignaled, memory,
                now, crashed, tokenState, registered, owed, tally, emit, decode>>

SpawnRunning == spawn.pc = "running" /\ ~spawn.fatal

\* operator new for a Thread: any address that holds no Thread; the lowest
\* stands for them.
NewThread == Min({r \in Records : spawn.record[r] \in {"free", "freed"}})

\* launchThread, lines 316-323: the Thread object is created and both function
\* indices are resolved; a trap leaves launchThread with the object allocated
\* and referenced by nothing.
LaunchResolve(l) ==
    /\ SpawnRunning
    /\ spawn.launch[l].pc = "idle"
    /\ spawn.launchesLeft > 0
    /\ OnlySpawnChanges
    /\ \E entryFunctionIndex, errorFunctionIndex \in ElementIndices :
         LET thread == NewThread
             entryTrap == getFunctionFromTable("thread", entryFunctionIndex)
             errorTrap == getFunctionFromTable("thread", errorFunctionIndex)
             trap == IF entryTrap # "none" THEN entryTrap ELSE errorTrap
         IN  spawn' =
               IF trap # "none"
               THEN [spawn EXCEPT
                       !.record[thread] = "leaked",
                       !.host[thread] = "none",
                       !.wakeEvent[thread] = "none",
                       !.launch[l] = [pc |-> "idle", thread |-> NULL,
                                      trap |-> trap],
                       !.launchesLeft = @ - 1]
               ELSE [spawn EXCEPT
                       !.record[thread] = "allocated",
                       !.host[thread] = "none",
                       !.wakeEvent[thread] = "none",
                       !.launch[l] = [pc |-> "push", thread |-> thread,
                                      trap |-> "none"],
                       !.launchesLeft = @ - 1]

\* launchThread, lines 324-327: under threadsMutex, threads.push_back(thread).
LaunchPush(l) ==
    /\ SpawnRunning
    /\ spawn.launch[l].pc = "push"
    /\ OnlySpawnChanges
    /\ spawn' = [spawn EXCEPT
                   !.threads = Append(@, spawn.launch[l].thread),
                   !.launch[l].pc = "start"]

\* launchThread, lines 330-337: the host thread is started and detached.
LaunchStart(l) ==
    /\ SpawnRunning
    /\ spawn.launch[l].pc = "start"
    /\ OnlySpawnChanges
    /\ spawn' = [spawn EXCEPT
                   !.host[spawn.launch[l].thread] = "entry",
                   !.launch[l] = [pc |-> "idle", thread |-> NULL,
                                  trap |-> "none"]]

\* threadFunc, lines 268-272: the entry function runs; it returns or raises a
\* runtime exception, and it may have waited on an address, which creates the
\* thread's wake event (line 141).
ThreadEntry(r) ==
    /\ SpawnRunning
    /\ spawn.host[r] = "entry"
    /\ OnlySpawnChanges
    /\ \E raised, waited \in BOOLEAN :
         spawn' = [spawn EXCEPT
                     !.host[r] = IF raised THEN "error" ELSE "destroy_event",
                     !.wakeEvent[r] = IF waited THEN "created" ELSE "none"]

\* threadFunc, lines 273-291: the error function runs; a second exception is
\* the fatal "double fault".
ThreadError(r) ==
    /\ SpawnRunning
    /\ spawn.host[r] = "error"
    /\ OnlySpawnChanges
    /\ \E raised, waited \in BOOLEAN :
         spawn' = IF raised
                  THEN [spawn EXCEPT !.fatal = TRUE]
                  ELSE [spawn EXCEPT
                          !.host[r] = "destroy_event",
                          !.wakeEvent[r] =
                             IF waited THEN "created" ELSE @]

\* threadFunc, lines 294-297: the wake event, if there is one, is destroyed.
ThreadDestroyEvent(r) ==
    /\ SpawnRunning
    /\ spawn.host[r] = "destroy_event"
    /\ OnlySpawnChanges
    /\ spawn' = [spawn EXCEPT
                   !.host[r] = "remove",
                   !.wakeEvent[r] = IF @ = "created" THEN "destroyed" ELSE @]

\* threads.erase(std::find(threads.begin(), threads.end(), thread)), lines
\* 302-303.
EraseThread_First(threads, thread) == Tail(threads)

EraseThread(threads, thread) == RemoveAt(threads, IndexOf(threads, thread))

\* threadFunc, lines 300-304: under threadsMutex, the thread takes its record
\* off the list.
ThreadRemove(r) ==
    /\ SpawnRunning
    /\ spawn.host[r] = "remove"
    /\ OnlySpawnChanges
    /\ spawn' = [spawn EXCEPT
                   !.host[r] = "delete",
                   !.threads = EraseThread(@, r)]

\* threadFunc, lines 307-308: delete thread; the host thread ends.  Deleting
\* what is no longer an allocated Thread is a double free.
ThreadDelete(r) ==
    /\ SpawnRunning
    /\ spawn.host[r] = "delete"
    /\ OnlySpawnChanges
    /\ spawn' = [spawn EXCEPT
                   !.host[r] = "exited",
                   !.record[r] = IF @ = "allocated" THEN "freed"
                                 ELSE "double_free"]

\* The registry model: the launchers call launchThread with any indices, and
\* the spawned threads run to their exit; nothing else is running.
SpawnInit ==
    /\ ThreadsInit(0, 0)
    /\ emit = EmitIdle
    /\ decode = DecodeIdle
    /\ spawn = SpawnEntry

SpawnNext ==
    \/ \E l \in Launchers : LaunchResolve(l)
    \/ \E l \in Launchers : LaunchPush(l)
    \/ \E l \in Launchers : LaunchStart(l)
    \/ \E r \in Records : ThreadEntry(r)
    \/ \E r \in Records : ThreadError(r)
    \/ \E r \in Records : ThreadDestroyEvent(r)
    \/ \E r \in Records : ThreadRemove(r)
    \/ \E r \in Records : ThreadDelete(r)

SpawnSpec == SpawnInit /\ [][SpawnNext]_vars

\* ------------------------------------------------------------- the claims
\* Thread t takes the step of the wake loop that signals one event.
SignalStep(t) ==
    /\ frame[t].pc = "wake_loop"
    /\ frame'[t].pc = "wake_loop"
    /\ frame'[t].wakeIndex = frame[t].wakeIndex + 1

\* C1: FIFO wake order.  With wakeIndex events signaled so far, a wake on an
\* address signals the token with the next-oldest registration among the tokens
\* still registered for that address: a wake of n signals the n oldest, a wake
\* of one the oldest.
C1_FifoWakeOrder ==
    [][\A t \in Threads :
         SignalStep(t) =>
           /\ Len(registered[frame[t].address]) > frame[t].wakeIndex
           /\ EventAt(heap[frame[t].waitList].wakeEvents, frame[t].wakeIndex)
                = registered[frame[t].address][frame[t].wakeIndex + 1]]_vars

\* min(count, size), where a count of UINT32_MAX stands for all.
MinCount(count, size) == IF count = UINT32_MAX \/ count > size THEN size ELSE count

\* C2: a wake with count > 0 fixes, when it takes the wait-list mutex, the
\* number n = min(count, tokens registered for its address); it then removes
\* exactly the first n tokens of the list, leaves the others in their order,
\* and returns n.
C2_WakeCount ==
    [][\A t \in Threads :
         /\ (frame[t].pc = "wake_lock" /\ frame'[t].pc = "wake_loop")
              => frame'[t].actualNumToWake
                   = MinCount(frame[t].numToWake,
                              Len(registered[frame[t].address]))
         /\ (frame[t].pc = "wake_loop" /\ frame'[t].pc = "close")
              => LET before == heap[frame[t].waitList].wakeEvents
                     n == frame[t].actualNumToWake
                 IN  /\ frame[t].wakeIndex = n
                     /\ heap'[frame[t].waitList].wakeEvents
                          = SubSeq(before, n + 1, Len(before))
         /\ (frame[t].op = "atomic_wake" /\ frame[t].pc \in {"close", "close_check"}
               /\ frame'[t].pc = "returned")
              => /\ frame'[t].ret = frame[t].actualNumToWake
                 /\ frame'[t].trap = "none"]_vars

\* Thread t is the caller in a step in which an intrinsic is called: it was
\* outside the intrinsics and has the frame of the call after the step.
CallStep(t) ==
    /\ callsLeft' = callsLeft - 1
    /\ ~crashed'
    /\ Outside(t)
    /\ frame' = frame \/ frame'[t] # frame[t]

\* The step leaves the wait lists, the address table, the events and the
\* registrations as they were.
NothingShared ==
    UNCHANGED <<heap, addressToWaitListMap, threadWakeEvent, eventSignaled,
                memory, registered>>

\* C3: atomic_wake(K, 0) on a valid K returns 0 and is a no-op: no event is
\* signaled, no wait list created or opened, no reference count changed, the
\* address table left as it was.
C3_WakeZeroNoOp ==
    [][\A t \in Threads :
         (/\ CallStep(t)
          /\ frame'[t].op = "atomic_wake"
          /\ frame'[t].numToWake = 0
          /\ frame'[t].address <= MemEndOffset
          /\ frame'[t].address % 4 = 0)
         => /\ frame'[t].pc = "returned"
            /\ frame'[t].ret = 0
            /\ frame'[t].trap = "none"
            /\ frame'[t].waitList = NULL
            /\ NothingShared]_vars

\* A wake of none has returned 0 while a waiter is parked on its address.
C3_Witness ==
    \E t, u \in Threads :
      /\ frame[t].pc = "returned"
      /\ frame[t].op = "atomic_wake"
      /\ frame[t].numToWake = 0
      /\ frame[t].ret = 0
      /\ frame[t].trap = "none"
      /\ frame[u].pc = "wait_event"
      /\ frame[u].address = frame[t].address
      /\ addressToWaitListMap[frame[u].address] = frame[u].waitList
      /\ heap[frame[u].waitList].wakeEvents = <<u>>
      /\ heap[frame[u].waitList].numReferences = 1

\* The call of frame f has thrown trap.
Trapped(f, trap) == f.pc = "returned" /\ f.trap = trap

\* C8: every call of atomic_wake, atomic_wait_i32, atomic_wait_i64 traps with
\* accessViolation if its offset is greater than endOffset (equal passes),
\* otherwise with misalignedAtomicMemoryAccess if the offset is no multiple of
\* the access width (8 for the 64-bit wait, 4 otherwise), otherwise not at all;
\* a call that traps opens no wait list, registers no token, signals nothing
\* and leaves the address table as it was.
C8_PreValidation ==
    [][\A t \in Threads :
         CallStep(t) =>
           LET f == frame'[t]
               width == IF f.op = "atomic_wait_i64" THEN 8 ELSE 4
           IN  /\ f.address > MemEndOffset
                    => Trapped(f, "accessViolation") /\ NothingShared
               /\ (f.address <= MemEndOffset /\ f.address % width # 0)
                    => Trapped(f, "misalignedAtomicMemoryAccess") /\ NothingShared
               /\ (f.address <= MemEndOffset /\ f.address % width = 0)
                    => f.trap \notin {"accessViolation",
                                      "misalignedAtomicMemoryAccess"}
               /\ f.pc = "returned" => f.waitList = NULL /\ tokenState'[t] = "none"]_vars

\* One call has trapped with accessViolation, one with
\* misalignedAtomicMemoryAccess at an offset below endOffset, or one call at
\* endOffset itself is past the validation, with a wait list open.
C8_Witness ==
    \E t, u \in Threads :
      /\ Trapped(frame[t], "accessViolation")
      /\ frame[t].address > MemEndOffset
      /\ frame[u].address = MemEndOffset
      /\ frame[u].pc = "wake_lock"
      /\ addressToWaitListMap[MemEndOffset] = frame[u].waitList

\* The words of the memory at the address of frame f, as wide as its access.
CellValue(f) ==
    IF f.op = "atomic_wait_i64"
    THEN <<memory[f.address], memory[f.address + 4]>>
    ELSE <<memory[f.address]>>

\* The step changes the wake-event list of no wait list.
WakeEventsUnchanged ==
    \A o \in ObjIds : heap'[o].wakeEvents = heap[o].wakeEvents

ReturnedWoken(t) ==
    /\ frame[t].pc = "returned"
    /\ IsWait(frame[t].op)
    /\ frame[t].ret = 0
    /\ frame[t].trap = "none"

\* The wait lists that hold the token of thread t.
ListsHolding(t) == {o \in ObjIds : t \in SeqToSet(heap[o].wakeEvents)}

BeingErased(t, o) ==
    \E u \in Threads :
      /\ frame[u].pc = "wake_loop"
      /\ frame[u].waitList = o
      /\ heap[o].mutex = u
      /\ IndexOf(heap[o].wakeEvents, t) <= frame[u].wakeIndex
      /\ frame[u].wakeIndex <= frame[u].actualNumToWake

Parked(t) == frame[t].pc = "wait_event" /\ ~eventSignaled[t]

\* C6: no lost wake-up.  Once a cell has been stored to and an
\* atomic_wake(K, UINT32_MAX) called after the store has returned, no waiter on
\* K is parked on a value the cell no longer has: a waiter parked on an old
\* value is owed a wake by a store that no completed wake of all has followed.
C6_NoLostWakeup ==
    \A t \in Threads :
      (Parked(t) /\ CellValue(frame[t]) # frame[t].expectedValue)
        => owed[frame[t].address]

\* C7: at a quiescent point (no thread between openWaitList and the end of
\* the matching closeWaitList) the address table has no entry whose wait list
\* has no wake events and no references.
C7_NoDeadEntry ==
    (\A t \in Threads : Outside(t)) =>
      \A a \in Addresses :
        addressToWaitListMap[a] # NULL =>
          ~(/\ heap[addressToWaitListMap[a]].wakeEvents = <<>>
            /\ heap[addressToWaitListMap[a]].numReferences = 0)

\* Thread t is in a wait with a finite deadline, registered on the wait list
\* after it found the expected value.
TimedWaitRegistered(t) ==
    /\ frame[t].pc = "wait_event"
    /\ frame[t].endTime # UINT64_MAX

\* The wait of thread t has returned 2 with its token on no wait list.
ReturnedTimedOut(t) ==
    /\ frame[t].pc = "returned"
    /\ IsWait(frame[t].op)
    /\ frame[t].ret = 2
    /\ frame[t].trap = "none"
    /\ ListsHolding(t) = {}

\* C9: timeout termination.  Under fair scheduling and an advancing clock, a
\* registered wait with a finite deadline whose token no wake signals
\* eventually returns 2, its token off the wait list and its reference closed.
C9_TimeoutTermination ==
    \A t \in Threads :
      TimedWaitRegistered(t)
        ~> (ReturnedTimedOut(t) \/ tokenState[t] \in {"signaled", "stray"})

\* base0 .. base<n-1>
Indexed(base, n) == {base \o ToString(i) : i \in 0 .. (n - 1)}

\* The external symbols the symbol scheme lists for module m on target tg:
\* the indexed names, moduleInstance, tableReferenceBias and the personality
\* symbol of the target.
SchemeSymbols(m, tg) ==
    Indexed("typeId", m.types) \cup Indexed("tableOffset", m.tables)
      \cup Indexed("memoryOffset", m.memories) \cup Indexed("global", m.globals)
      \cup Indexed("exceptionType", m.exceptionTypes)
      \cup Indexed("functionImport", Len(m.imports))
      \cup Indexed("functionDef", Len(m.defs))
      \cup Indexed("functionDefInstance", Len(m.defs))
      \cup {"moduleInstance", "tableReferenceBias"}
      \cup {IF tg.win32 THEN "__C_specific_handler" ELSE "__gxx_personality_v0"}

\* No name occurs twice in q.
NoDuplicates(q) == \A i, j \in 1 .. Len(q) : q[i] = q[j] => i = j

\* C10 as stated: emitModule creates exactly the symbols of the scheme, each
\* once.
C10_ExactlySchemeSymbols ==
    emit.pc = "done" =>
      /\ SeqToSet(emit.symbols) = SchemeSymbols(emit.irModule, emit.target)
      /\ NoDuplicates(emit.symbols)

\* C10, amended: emitModule creates the symbols of the scheme and, on a target
\* that does not use Windows SEH, the symbol __cxa_begin_catch; it creates
\* nothing else and no name twice.
C10_SymbolScheme ==
    emit.pc = "done" =>
      /\ SeqToSet(emit.symbols)
           = SchemeSymbols(emit.irModule, emit.target)
               \cup (IF emit.target.seh THEN {} ELSE {"__cxa_begin_catch"})
      /\ NoDuplicates(emit.symbols)

\* emitModule has finished the module of the scenario (2 types, 1 table, no
\* memory, 1 import, 3 definitions) on a target without Windows SEH: the
\* thirteen symbols of the scenario and __cxa_begin_catch.
C10_Witness ==
    /\ emit.pc = "done"
    /\ ~emit.target.seh
    /\ ~emit.target.win32
    /\ emit.irModule.types = 2
    /\ emit.irModule.tables = 1
    /\ emit.irModule.memories = 0
    /\ emit.irModule.globals = 0
    /\ emit.irModule.exceptionTypes = 0
    /\ Len(emit.irModule.imports) = 1
    /\ Len(emit.irModule.defs) = 3
    /\ SeqToSet(emit.symbols) =
         {"typeId0", "typeId1", "tableOffset0", "functionImport0",
          "functionDef0", "functionDef1", "functionDef2",
          "functionDefInstance0", "functionDefInstance1",
          "functionDefInstance2", "moduleInstance", "tableReferenceBias",
          "__gxx_personality_v0", "__cxa_begin_catch"}

\* The functions that have prefix data.
WithPrefixData == {emit.prefixData[k].function : k \in 1 .. Len(emit.prefixData)}

\* Definition j (0-based) has been compiled as the claim says: its body went
\* into functions[imports.size() + j], which is named functionDef<j>, has the
\* personality function and has the two-word prefix data.
CompiledAsDef(j) ==
    LET m == emit.irModule
        function == emit.functions[Len(m.imports) + j + 1]
    IN  /\ emit.emitted[j + 1] = function
        /\ function = "functionDef" \o ToString(j)
        /\ function \in emit.personalityFn
        /\ emit.prefixData[j + 1] =
             [function |-> function,
              data |-> <<"functionDefInstance" \o ToString(j),
                         emit.typeIds[m.defs[j + 1] + 1]>>]
        /\ emit.typeIds[m.defs[j + 1] + 1] = "typeId" \o ToString(m.defs[j + 1])

\* Import i (0-based), once its function exists, is named functionImport<i>
\* and has neither personality, prefix data nor body.
LeftAsImport(i) ==
    LET function == emit.functions[i + 1]
    IN  /\ function = "functionImport" \o ToString(i)
        /\ function \notin emit.personalityFn
        /\ function \notin WithPrefixData
        /\ function \notin SeqToSet(emit.emitted)

\* C11: every function definition j compiled so far has its body in
\* functions[imports.size() + j], named functionDef<j>, with the personality
\* function and the prefix data [functionDefInstance<j>, typeIds[type index]];
\* the function imports have neither prefix data, personality nor body; when
\* emitModule is done every definition has been compiled, and nothing else.
C11_DefsCarryPrefixData ==
    emit.pc # "idle" =>
      LET m == emit.irModule
      IN  /\ Len(emit.emitted) = Len(emit.prefixData)
          /\ Len(emit.emitted) <= Len(m.defs)
          /\ \A j \in 0 .. (Len(emit.emitted) - 1) : CompiledAsDef(j)
          /\ \A i \in 0 .. (Len(m.imports) - 1) :
               i < Len(emit.functions) => LeftAsImport(i)
          /\ Cardinality(emit.personalityFn) = Len(emit.emitted)
          /\ emit.pc = "done" => Len(emit.emitted) = Len(m.defs)

\* emitModule has finished a module with an import and three definitions, the
\* last of which has type 1: functions[3] is functionDef2 and its prefix data
\* is [functionDefInstance2, typeId1].
C11_Witness ==
    /\ emit.pc = "done"
    /\ Len(emit.irModule.imports) = 1
    /\ Len(emit.irModule.defs) = 3
    /\ emit.irModule.defs[3] = 1
    /\ emit.irModule.defs[1] = 0
    /\ emit.functions[4] = "functionDef2"
    /\ emit.prefixData[3] =
         [function |-> "functionDef2",
          data |-> <<"functionDefInstance2", "typeId1">>]
    /\ "functionImport0" \notin emit.personalityFn

\* The external globals a function body can reference, and the functions.
BodyReferences(m) ==
    Indexed("typeId", m.types) \cup Indexed("tableOffset", m.tables)
      \cup Indexed("memoryOffset", m.memories) \cup Indexed("global", m.globals)
      \cup Indexed("exceptionType", m.exceptionTypes)
      \cup {"moduleInstance", "tableReferenceBias"}
      \cup Indexed("functionImport", Len(m.imports))
      \cup Indexed("functionDef", Len(m.defs))

\* C12: emission ordering.  diBuilder.finalize() is called at most once, it
\* has been called once when emitModule is done, and when it is called every
\* function exists and every definition's body has been emitted; when a body
\* has been emitted, every external global a body can reference and every
\* function exists.
C12_EmissionOrder ==
    emit.pc # "idle" =>
      LET m == emit.irModule
      IN  /\ emit.finalized <= 1
          /\ emit.pc = "done" <=> emit.finalized = 1
          /\ emit.finalized = 1 =>
               /\ Len(emit.functions) = Len(m.imports) + Len(m.defs)
               /\ Len(emit.emitted) = Len(m.defs)
          /\ emit.emitted # <<>> =>
               /\ BodyReferences(m) \subseteq SeqToSet(emit.symbols)
               /\ Len(emit.functions) = Len(m.imports) + Len(m.defs)
               /\ Len(emit.typeIds) = m.types

\* The first body of a module with tables, memories, globals, exception types,
\* an import and several definitions has just been emitted, and debug info is
\* not finalized yet.
C12_Witness ==
    /\ emit.pc = "defs"
    /\ Len(emit.emitted) = 1
    /\ emit.finalized = 0
    /\ emit.irModule.tables = 1
    /\ emit.irModule.memories = 1
    /\ emit.irModule.globals = 1
    /\ emit.irModule.exceptionTypes = 1
    /\ Len(emit.irModule.imports) = 1
    /\ Len(emit.irModule.defs) = 2
    /\ Len(emit.functions) = 3

\* The wait list at o is entered in the address table.
InTable(o) == \E a \in Addresses : addressToWaitListMap[a] = o

\* The threads between openWaitList and closeWaitList on the wait list at o.
Holders(o) ==
    {t \in Threads : /\ frame[t].waitList = o
                     /\ frame[t].pc \notin {"idle", "returned", "close_check"}}

\* A thread is inside closeWaitList(.., o), past its decrement and before its
\* re-check.
Closing(o) ==
    \E t \in Threads : frame[t].pc = "close_check" /\ frame[t].waitList = o

\* C13: a WaitList is in the address table if and only if its numReferences is
\* at least 1, and numReferences is the number of threads between openWaitList
\* and closeWaitList on it.  The wait lists a thread is closing (past the
\* decrement, before the re-check under the table mutex) are left out: there
\* the count is 0 and the entry is still present in every run.
C13_TableIffReferenced ==
    \A o \in ObjIds :
      ((heap[o].live \/ InTable(o)) /\ ~Closing(o)) =>
        /\ heap[o].live
        /\ InTable(o) <=> heap[o].numReferences >= 1
        /\ heap[o].numReferences = Cardinality(Holders(o))

\* The wait list at o is live, unreferenced and holds no wake token.
Disposable(o) ==
    /\ heap[o].live
    /\ heap[o].numReferences = 0
    /\ heap[o].wakeEvents = <<>>

\* C14: every step that destroys a WaitList or takes one out of the address
\* table is the re-check of a closeWaitList on that very WaitList, which is
\* live, has numReferences 0 and no wake token; and the assertion of
\* closeWaitList never fails (no closeWaitList can abort).
C14_DestroyOnlyUnreferencedEmpty ==
    [][/\ \A t \in Threads :
            frame[t].pc = "close_check"
              => "abort" \notin CloseOutcomes(frame[t].waitList)
       /\ ~crashed' =>
            /\ \A o \in ObjIds :
                 (heap[o].live /\ ~heap'[o].live)
                   => (Disposable(o) /\ Closing(o))
            /\ \A a \in Addresses :
                 (addressToWaitListMap[a] # NULL
                    /\ addressToWaitListMap'[a] # addressToWaitListMap[a])
                   => /\ Disposable(addressToWaitListMap[a])
                      /\ Closing(addressToWaitListMap[a])
                      /\ addressToWaitListMap'[a] = NULL]_vars

\* The threads other than t that opened the wait list at o and have not yet
\* returned from closeWaitList on it.
OtherUsers(t, o) == {u \in Threads \ {t} : frame[u].waitList = o}

\* C15: resurrection safety.  When a thread that decremented numReferences to
\* 0 comes to its re-check while another thread that has opened the same wait
\* list since is still using it, the re-check sees a non-zero count: the wait
\* list is neither destroyed nor erased.
C15_ResurrectionSafe ==
    \A t \in Threads :
      (frame[t].pc = "close_check" /\ OtherUsers(t, frame[t].waitList) # {})
        => CloseOutcomes(frame[t].waitList) = {"keep"}

\* Thread t is not inside atomic_wait: it is outside every intrinsic or inside
\* atomic_wake.
NotInWait(t) == Outside(t) \/ ~IsWait(frame[t].op)

\* A timed-out waiter is about to look for its token, which is no longer on
\* its wait list.
TimedOutTokenGone(t) ==
    /\ frame[t].pc = "timeout_check"
    /\ t \notin SeqToSet(heap[frame[t].waitList].wakeEvents)

\* C16: the token of a thread that is not inside atomic_wait is unsignaled and
\* on no wait list, and a timed-out waiter that finds its token removed finds
\* it signaled (the fatal check never fires).  A token that a wake has signaled
\* and is about to erase, the wake still holding the wait-list mutex, counts
\* as off the list: the woken wait can return before the erase in every run.
C16_TokenNeverLeftSignaled ==
    \A t \in Threads :
      /\ NotInWait(t) =>
           /\ ~eventSignaled[t]
           /\ \A o \in ListsHolding(t) : BeingErased(t, o)
      /\ TimedOutTokenGone(t) => eventSignaled[t]

\* Every call has returned and the process is running.
Quiescent == ~crashed /\ \A t \in Threads : Outside(t)

\* C17: wake accounting.  A wait whose token a wake signaled and removed
\* returns 0 and every other registered wait returns 2, so that once all calls
\* have returned, the values the wakes on an address returned add up to the
\* number of waits on that address that returned 0.
C17_WakeAccounting ==
    Quiescent => \A a \in Addresses : tally.wakes[a] = tally.waits[a]

\* The thread that holds the mutex of the wait list at o, or NoThread.
MutexHolder(o) == heap[o].mutex

\* Thread t is about to lock the mutex of its wait list (lines 130, 153, 181).
LockingWaitList(t) == frame[t].pc \in {"wait_check", "timeout_check", "wake_lock"}

\* Thread t is about to lock addressToWaitListMapMutex (line 70), or not in a
\* call at all (any call it makes begins with openWaitList, line 50).
AtTableMutex(t) == frame[t].pc \in {"idle", "returned", "close_check"}

\* Thread t is blocked on its wake token (line 150).
BlockedOnToken(t) == frame[t].pc = "wait_event"

\* C18: lock discipline.  A thread that holds a wait-list mutex is inside the
\* locked scope of wakeAddress on that list; it is neither acquiring the
\* address-table mutex nor blocked on its wake token.  No set of calls
\* deadlocks on the mutexes: no thread is stuck in lockMutex, a thread inside
\* the locked scope or inside closeWaitList can take its next step, and a
\* thread about to lock a wait-list mutex can take it or the holder can take
\* its next step.
C18_LockDiscipline ==
    ~crashed =>
      /\ \A o \in ObjIds :
           MutexHolder(o) # NoThread =>
             /\ frame[MutexHolder(o)].pc = "wake_loop"
             /\ frame[MutexHolder(o)].waitList = o
             /\ ~AtTableMutex(MutexHolder(o))
             /\ ~BlockedOnToken(MutexHolder(o))
      /\ \A t \in Threads :
           /\ frame[t].pc # "hung"
           /\ frame[t].pc \in {"wake_loop", "close", "close_check"}
                => ENABLED Steps(t)
           /\ LockingWaitList(t) =>
                \/ ENABLED Steps(t)
                \/ /\ MutexHolder(frame[t].waitList) # NoThread
                   /\ ENABLED Steps(MutexHolder(frame[t].waitList))

\* The finite positive double x is larger than the integer n.
Exceeds(x, n) == x.k = "fin" /\ x.s > 0 /\ x.num > n * x.den

\* The finite double x is at most 0 (0.0, -0.0 or negative).
AtMostZero(x) == x.k = "fin" /\ (x.s < 0 \/ x.num = 0)

\* C19: timeout decoding, with x = timeout * 1000.0.  The deadline is
\* UINT64_MAX when x is NaN or +inf or larger than UINT64_MAX - 1; it is
\* startTime when x is finite and at most 0; otherwise it is startTime +
\* trunc(x), and the call ends in a fatal error when that sum wraps.  A
\* returned deadline is never earlier than startTime.
C19_TimeoutDecoding ==
    decode.pc = "returned" =>
      LET x == TimesThousand(decode.timeout)
          startTime == decode.startTime
          endTime == decode.endTime
      IN  /\ (x.k = "nan" \/ x = PosInf \/ Exceeds(x, UINT64_MAX - 1))
               => endTime = UINT64_MAX
          /\ AtMostZero(x) => endTime = startTime
          /\ (x.k = "fin" /\ ~AtMostZero(x) /\ ~Exceeds(x, UINT64_MAX - 1))
               => endTime = IF startTime + TruncToU64(x) <= UINT64_MAX
                            THEN startTime + TruncToU64(x) ELSE Fatal
          /\ endTime # Fatal => endTime >= startTime

\* The records on the global list `threads`.
Listed == {spawn.threads[i] : i \in 1 .. Len(spawn.threads)}

\* The record has been inserted by launchThread, and its thread has not yet
\* taken it off the list: the thread is about to be started, or it runs its
\* entry or error function, or it is at its exit before the removal.
SpawnedNotExited(r) ==
    \/ \E l \in Launchers :
         spawn.launch[l].pc = "start" /\ spawn.launch[l].thread = r
    \/ spawn.host[r] \in {"entry", "error", "destroy_event", "remove"}

\* C20: the global list holds exactly the records of the spawned threads that
\* have not yet exited, each once: a launchThread call that traps registers
\* nothing and starts no host thread, a record is on the list before its host
\* thread starts, and an exiting thread has destroyed its wake event if it had
\* one, takes exactly its own record off the list and frees it exactly once.
C20_RegistryExact ==
    spawn.pc = "running" =>
        /\ Listed = {r \in Records : SpawnedNotExited(r)}
        /\ Len(spawn.threads) = Cardinality(Listed)
        /\ \A r \in Records :
             /\ spawn.record[r] = "leaked" =>
                  r \notin Listed /\ spawn.host[r] = "none"
             /\ spawn.host[r] \in {"entry", "error", "destroy_event", "remove",
                                   "delete"} =>
                  spawn.record[r] = "allocated"
             /\ spawn.host[r] \in {"remove", "delete", "exited"} =>
                  spawn.wakeEvent[r] # "created"
             /\ spawn.host[r] = "exited" => spawn.record[r] = "freed"
             /\ spawn.record[r] # "double_free"
        /\ \A l \in Launchers :
             spawn.launch[l].trap # "none" => spawn.launch[l].pc = "idle"

\* C20 witness: one launchThread call has trapped, one spawned thread has
\* exited after destroying its wake event, and a third record is on the list
\* with its thread running.
C20_Witness ==
    /\ spawn.pc = "running"
    /\ \E l \in Launchers : spawn.launch[l].trap # "none"
    /\ \E r \in Records : spawn.record[r] = "leaked"
    /\ \E r \in Records :
         spawn.host[r] = "exited" /\ spawn.wakeEvent[r] = "destroyed"
    /\ \E r \in Listed : spawn.host[r] = "entry"

\* Thread t takes a step of its call that reads or writes the WaitList its
\* pointer names: it locks the mutex (lines 130, 153, 181), signals or erases
\* wake events (193, 197), decrements numReferences (68) or re-checks it (71).
TouchesWaitList(t) ==
    /\ frame[t].pc \in {"wait_check", "timeout_check", "wake_lock", "wake_loop",
                        "close", "close_check"}
    /\ \/ frame'[t].pc # frame[t].pc
       \/ frame'[t].wakeIndex # frame[t].wakeIndex

\* C21: the wait-list table is memory-safe: a step of a call that reads or
\* writes a WaitList finds it not destroyed, openWaitList increments only a
\* WaitList that is not destroyed, and a closeWaitList(address, wl) that takes
\* the entry of `address` out of the table finds that entry naming wl, not
\* destroyed, so that wl is destroyed once and no other wait list loses its
\* entry.
C21_WaitListMemorySafe ==
    [][\A t \in Threads :
         /\ TouchesWaitList(t) => heap[frame[t].waitList].live
         /\ (frame[t].pc \in {"idle", "returned"} /\ frame'[t].pc # frame[t].pc
               /\ frame'[t].waitList # NULL
               /\ addressToWaitListMap' = addressToWaitListMap)
            => heap[frame'[t].waitList].live
         /\ (/\ frame[t].pc = "close_check"
             /\ frame'[t].pc = "returned"
             /\ addressToWaitListMap[frame[t].address] # NULL
             /\ addressToWaitListMap'[frame[t].address] = NULL)
            => /\ addressToWaitListMap[frame[t].address] = frame[t].waitList
               /\ heap[frame[t].waitList].live]_vars

====
